---- MODULE Spec2Model ----
(***************************************************************************)
(* Model of the "aggregated approach" cells of vsm_04_contextualreps.ipynb *)
(* (calebchiam/cs224u): the Span Locator find_sublist_indices and the      *)
(* sailing_reps aggregation loop that pools every occurrence of a word.    *)
(*                                                                         *)
(* A Python value carries its type, so a sequence argument is a record     *)
(* [kind, data] with kind "list" (Python list) or "tensor" (1-D            *)
(* torch.Tensor); `==` and `if` behave differently on the two.             *)
(* A hidden representation is modelled by one of its components, an exact  *)
(* rational <<numerator, denominator>>: torch.mean reduces every component *)
(* independently.                                                          *)
(***************************************************************************)
EXTENDS Integers, Sequences, FiniteSets, TLC

VARIABLES cell, pc, exc,
          sublist, mainlist, result,
          sailing, corpus_ids, corpus_reps, k, sailing_reps, sailing_rep,
          vocab, bert_tokenizer, bert_model, vocab_ids, pooled_df

vars == <<cell, pc, exc, sublist, mainlist, result,
          sailing, corpus_ids, corpus_reps, k, sailing_reps, sailing_rep,
          vocab, bert_tokenizer, bert_model, vocab_ids, pooled_df>>

\* The vocabulary, the pretrained tokenizer and model, and the word-keyed
\* tables built from them.
vocab_state == <<vocab, bert_tokenizer, bert_model, vocab_ids, pooled_df>>

(* ------------------------------ bounds --------------------------------- *)
MaxId == 1          \* token ids are 0..MaxId
MaxSub == 2         \* longest target sequence
MaxMain == 4        \* longest haystack of a direct call
MaxCorpusTokens == 3 \* most token ids in a corpus, over all its texts
MaxRep == 1         \* a token's representation component is 0..MaxRep
MaxWords == 2       \* words are 1..MaxWords

TokenIds == 0..MaxId

SeqsUpTo(S, lo, hi) == UNION {[1..n -> S] : n \in lo..hi}

(* ------------------------- Python / torch values ----------------------- *)
List(d) == [kind |-> "list", data |-> d]
Tensor(d) == [kind |-> "tensor", data |-> d]
None == [kind |-> "none", data |-> <<>>]

Min(a, b) == IF a < b THEN a ELSE b

\* Python slice s[a:b] for 0 <= a: the stop index is clamped to len(s).
Slice(s, a, b) == SubSeq(s, a + 1, Min(b, Len(s)))

\* Outcome of a call: a returned value or a raised exception.
Return(v) == [raised |-> FALSE, exc |-> "none", value |-> v]
Raise(e) == [raised |-> TRUE, exc |-> e, value |-> <<>>]

\* torch `a == b` on 1-D tensors: elementwise, a size-1 operand broadcasts,
\* any other size mismatch raises.
tensor_eq(a, b) ==
  IF Len(a) = Len(b) THEN Return([j \in 1..Len(a) |-> a[j] = b[j]])
  ELSE IF Len(a) = 1 THEN Return([j \in 1..Len(b) |-> a[1] = b[j]])
  ELSE IF Len(b) = 1 THEN Return([j \in 1..Len(a) |-> a[j] = b[1]])
  ELSE Raise("size_mismatch")

\* bool(t) of a bool tensor, as `if t:` evaluates it: defined only for
\* exactly one element.
tensor_bool(t) ==
  IF Len(t) = 1 THEN Return(t[1]) ELSE Raise("ambiguous_bool")

(* --------------------------- find_sublist_indices ---------------------- *)
\* range(0, len(mainlist)-length+1): the exclusive stop of the scan.
range_stop_nolength(s, m) == Len(m.data)
range_stop(s, m) == Len(m.data) - Len(s.data) + 1

\* `if mainlist[i: i+length] == sublist`: the truth value tested, or the
\* exception the test raises.
cond_first_only(s, m, i) ==
  LET sl == Slice(m.data, i, i + Len(s.data))
  IN  Return(Len(sl) > 0 /\ Len(s.data) > 0 /\ sl[1] = s.data[1])
cond_unordered(s, m, i) ==
  LET sl == Slice(m.data, i, i + Len(s.data))
  IN  Return(Len(sl) = Len(s.data)
             /\ {sl[j] : j \in 1..Len(sl)} = {s.data[j] : j \in 1..Len(s.data)})
cond_nonempty(s, m, i) ==
  LET sl == Slice(m.data, i, i + Len(s.data))
  IN  Return(sl # <<>> /\ sl = s.data)
cond(s, m, i) ==
  LET sl == Slice(m.data, i, i + Len(s.data))
  IN  IF m.kind = "list"
      THEN Return(sl = s.data)
      ELSE LET e == tensor_eq(sl, s.data)
           IN  IF e.raised THEN e ELSE tensor_bool(e.value)

\* indices.append((i, i+length))
append_front(acc, i, length) == <<(<<i, i + length>>)>> \o acc
append_short(acc, i, length) == Append(acc, <<i, i + length - 1>>)
append_span(acc, i, length) == Append(acc, <<i, i + length>>)

\* the for loop steps to the next start position whatever the test gave.
next_skip(i, matched, length) == IF matched /\ length > 0 THEN i + length ELSE i + 1
next_i(i, matched, length) == i + 1

RECURSIVE scan(_, _, _, _)
scan(s, m, i, acc) ==
  IF i >= range_stop(s, m) THEN Return(acc)
  ELSE LET c == cond(s, m, i)
       IN  IF c.raised THEN c
           ELSE scan(s, m, next_i(i, c.value, Len(s.data)),
                     IF c.value THEN append_span(acc, i, Len(s.data)) ELSE acc)

find_sublist_indices(s, m) == scan(s, m, 0, <<>>)

\* The arguments as the call leaves them: the body only reads sublist and
\* mainlist (len, slice, ==); it assigns to neither and calls no mutator.
args_consumed(s, m) == <<s, [m EXCEPT !.data = <<>>]>>
args_after_call(s, m) == <<s, m>>

(* ------------------------------ rationals ------------------------------ *)
NaN == <<0, 0>>

RECURSIVE GCD(_, _)
GCD(a, b) == IF b = 0 THEN a ELSE GCD(b, a % b)

Rat(n, d) == LET g == GCD(n, d) IN <<n \div g, d \div g>>

RatAdd(x, y) ==
  IF x = NaN \/ y = NaN THEN NaN
  ELSE Rat(x[1] * y[2] + y[1] * x[2], x[2] * y[2])

RECURSIVE RatSum(_)
RatSum(vs) == IF vs = <<>> THEN <<0, 1>> ELSE RatAdd(vs[1], RatSum(Tail(vs)))

\* torch.mean over a sequence of values; the mean of nothing is NaN.
torch_mean(vs) ==
  IF vs = <<>> THEN NaN
  ELSE LET t == RatSum(vs)
       IN  IF t = NaN THEN NaN ELSE Rat(t[1], t[2] * Len(vs))

(* ------------------------- vsm helpers (external) ---------------------- *)
\* vsm.mean_pooling "is simple torch.mean with axis=1".
mean_pooling(vs) == torch_mean(vs)

\* vsm.hf_encode never returns an empty id sequence (unk_token fallback).
EncodedTexts(maxlen) == {Tensor(d) : d \in SeqsUpTo(TokenIds, 1, maxlen)}

\* tokenizer.encode may give no id at all for a text; vsm.hf_encode then
\* encodes the tokenizer's unk_token instead.
RawEncodings(maxlen) == SeqsUpTo(TokenIds, 0, maxlen)
unk_token_id == MaxId
hf_encode(raw) == Tensor(IF raw = <<>> THEN <<unk_token_id>> ELSE raw)

\* vocab_ids = {w: vsm.hf_encode(w, bert_tokenizer)[0] for w in vocab}: the
\* search target stored for a word whose tokenizer encoding is raw.
vocab_id_raw(raw) == Tensor(raw)
vocab_id(raw) == hf_encode(raw)

\* A corpus: a non-empty sequence of encoded texts, n token ids in all.
RECURSIVE CorporaOfSize(_)
CorporaOfSize(n) ==
  IF n = 0 THEN {<<>>}
  ELSE UNION {{<<t>> \o c : t \in {e \in EncodedTexts(l) : Len(e.data) = l},
                            c \in CorporaOfSize(n - l)} : l \in 1..n}

Corpora == UNION {CorporaOfSize(n) : n \in 1..MaxCorpusTokens}

\* A pretrained model: the representation of a token depends on the token
\* and on its context (here: an amount added according to whether the token
\* opens the sequence).
Models == [BOOLEAN -> 0..MaxRep]

\* vsm.hf_represent: one representation per token of the sequence.
hf_represent(ids, model) ==
  [p \in 1..Len(ids.data) |-> <<ids.data[p] + model[p = 1], 1>>]

(* ------------------------- word-keyed tables -------------------------- *)
Words == 1..MaxWords

\* A pretrained tokenizer, fixed here by the number of ids (none up to MaxSub)
\* it gives for each word; the ids of word w are w, w+1, ... within TokenIds.
Tokenizers ==
  {[w \in Words |-> [j \in 1..len[w] |-> (w + j) % (MaxId + 1)]] :
     len \in [Words -> 0..MaxSub]}

\* vocab = list(vsm_index.index): an ordered sequence of unique words.
Vocabularies ==
  {v \in SeqsUpTo(Words, 0, MaxWords) :
     \A a, b \in 1..Len(v) : a # b => v[a] # v[b]}

\* A dict is its <<key, value>> items in insertion order; d[key] = val
\* replaces the value of a key already present and appends a new key.
dict_set_front(d, key, val) == <<(<<key, val>>)>> \o d
dict_set(d, key, val) ==
  IF \E n \in 1..Len(d) : d[n][1] = key
  THEN [n \in 1..Len(d) |-> IF d[n][1] = key THEN <<key, val>> ELSE d[n]]
  ELSE Append(d, <<key, val>>)

\* vsm.create_subword_pooling_vsm: every word is encoded in isolation,
\* represented and pooled; the rows are indexed by vocab, in its order.
create_subword_pooling_vsm(v, tokenizer, model) ==
  [j \in 1..Len(v) |->
     <<v[j], mean_pooling(hf_represent(hf_encode(tokenizer[v[j]]), model))>>]

(* --------------------------- aggregation loop -------------------------- *)
\* pooled = vsm.mean_pooling(reps[:, start: end])
pooled_shifted(reps, start, end) == mean_pooling(Slice(reps, start + 1, end + 1))
pooled(reps, start, end) == mean_pooling(Slice(reps, start, end))

\* for (start, end) in offsets: ... sailing_reps.append(pooled)
extend_per_text(acc, offsets, reps) ==
  IF offsets = <<>> THEN acc
  ELSE Append(acc, torch_mean([n \in 1..Len(offsets) |->
                                 pooled(reps, offsets[n][1], offsets[n][2])]))
extend_reps(acc, offsets, reps) ==
  acc \o [n \in 1..Len(offsets) |-> pooled(reps, offsets[n][1], offsets[n][2])]

(* -------------------------------- states ------------------------------- *)
InitExample ==
  /\ cell = "example"
  /\ pc = "call"
  /\ exc = "none"
  /\ \E kind \in {"list", "tensor"} :
       /\ sublist \in {[kind |-> kind, data |-> d] : d \in SeqsUpTo(TokenIds, 0, MaxSub)}
       /\ mainlist \in {[kind |-> kind, data |-> d] : d \in SeqsUpTo(TokenIds, 0, MaxMain)}
  /\ result = <<>>
  /\ sailing = None
  /\ corpus_ids = <<>>
  /\ corpus_reps = <<>>
  /\ k = 0
  /\ sailing_reps = <<>>
  /\ sailing_rep = NaN
  /\ vocab = <<>>
  /\ bert_tokenizer = <<>>
  /\ bert_model = <<>>
  /\ vocab_ids = <<>>
  /\ pooled_df = <<>>

InitAggregate ==
  /\ cell = "aggregate"
  /\ pc = "loop"
  /\ exc = "none"
  /\ sublist = None
  /\ mainlist = None
  /\ result = <<>>
  /\ sailing \in {vocab_id(raw) : raw \in RawEncodings(MaxSub)}
  /\ corpus_ids \in Corpora
  /\ \E model \in Models :
       corpus_reps = [t \in 1..Len(corpus_ids) |-> hf_represent(corpus_ids[t], model)]
  /\ k = 1
  /\ sailing_reps = <<>>
  /\ sailing_rep = NaN
  /\ vocab = <<>>
  /\ bert_tokenizer = <<>>
  /\ bert_model = <<>>
  /\ vocab_ids = <<>>
  /\ pooled_df = <<>>

\* Before the cells that build pooled_df and vocab_ids run.
InitVocab ==
  /\ cell = "vocab"
  /\ pc = "pooled_df"
  /\ exc = "none"
  /\ sublist = None
  /\ mainlist = None
  /\ result = <<>>
  /\ sailing = None
  /\ corpus_ids = <<>>
  /\ corpus_reps = <<>>
  /\ k = 1
  /\ sailing_reps = <<>>
  /\ sailing_rep = NaN
  /\ vocab \in Vocabularies
  /\ bert_tokenizer \in Tokenizers
  /\ bert_model \in Models
  /\ vocab_ids = <<>>
  /\ pooled_df = <<>>

Init == InitExample \/ InitAggregate \/ InitVocab

\* A direct call find_sublist_indices(sublist, mainlist), as in the example cell.
CallFind ==
  /\ cell = "example"
  /\ pc = "call"
  /\ LET r == find_sublist_indices(sublist, mainlist)
     IN  /\ result' = r.value
         /\ exc' = r.exc
         /\ pc' = IF r.raised THEN "raised" ELSE "done"
  /\ sublist' = args_after_call(sublist, mainlist)[1]
  /\ mainlist' = args_after_call(sublist, mainlist)[2]
  /\ UNCHANGED <<cell, sailing, corpus_ids, corpus_reps,
                 k, sailing_reps, sailing_rep, vocab_state>>

\* One iteration of `for ids, reps in zip(corpus_ids, corpus_reps)`.
LoopText ==
  /\ cell = "aggregate"
  /\ pc = "loop"
  /\ k <= Min(Len(corpus_ids), Len(corpus_reps))
  /\ LET offsets == find_sublist_indices(sailing, corpus_ids[k])
     IN  IF offsets.raised
         THEN /\ pc' = "raised"
              /\ exc' = offsets.exc
              /\ UNCHANGED <<k, sailing_reps>>
         ELSE /\ sailing_reps' = extend_reps(sailing_reps, offsets.value, corpus_reps[k])
              /\ k' = k + 1
              /\ UNCHANGED <<pc, exc>>
  /\ sailing' = args_after_call(sailing, corpus_ids[k])[1]
  /\ corpus_ids' = [corpus_ids EXCEPT ![k] = args_after_call(sailing, corpus_ids[k])[2]]
  /\ UNCHANGED <<cell, sublist, mainlist, result, corpus_reps, sailing_rep,
                 vocab_state>>

\* sailing_rep = torch.mean(torch.cat(sailing_reps), axis=0).squeeze(0);
\* torch.cat raises on an empty list of tensors.
FinalPool ==
  /\ cell = "aggregate"
  /\ pc = "loop"
  /\ k > Min(Len(corpus_ids), Len(corpus_reps))
  /\ IF sailing_reps = <<>>
     THEN /\ pc' = "raised"
          /\ exc' = "empty_cat"
          /\ UNCHANGED sailing_rep
     ELSE /\ sailing_rep' = torch_mean(sailing_reps)
          /\ pc' = "done"
          /\ UNCHANGED exc
  /\ UNCHANGED <<cell, sublist, mainlist, result, sailing, corpus_ids,
                 corpus_reps, k, sailing_reps, vocab_state>>

\* pooled_df = vsm.create_subword_pooling_vsm(vocab, bert_tokenizer, bert_model, layer=1)
CreateVSM ==
  /\ cell = "vocab"
  /\ pc = "pooled_df"
  /\ pooled_df' = create_subword_pooling_vsm(vocab, bert_tokenizer, bert_model)
  /\ pc' = "vocab_ids"
  /\ UNCHANGED <<cell, exc, sublist, mainlist, result, sailing, corpus_ids,
                 corpus_reps, k, sailing_reps, sailing_rep,
                 vocab, bert_tokenizer, bert_model, vocab_ids>>

\* One word of the comprehension {w: vsm.hf_encode(w, bert_tokenizer)[0] for w in vocab}.
VocabIdsStep ==
  /\ cell = "vocab"
  /\ pc = "vocab_ids"
  /\ k <= Len(vocab)
  /\ vocab_ids' = dict_set(vocab_ids, vocab[k], vocab_id(bert_tokenizer[vocab[k]]))
  /\ k' = k + 1
  /\ UNCHANGED <<cell, pc, exc, sublist, mainlist, result, sailing, corpus_ids,
                 corpus_reps, sailing_reps, sailing_rep,
                 vocab, bert_tokenizer, bert_model, pooled_df>>

\* The comprehension is exhausted and its dict is bound to vocab_ids.
VocabIdsDone ==
  /\ cell = "vocab"
  /\ pc = "vocab_ids"
  /\ k > Len(vocab)
  /\ pc' = "done"
  /\ UNCHANGED <<cell, exc, sublist, mainlist, result, sailing, corpus_ids,
                 corpus_reps, k, sailing_reps, sailing_rep, vocab_state>>

Next == CallFind \/ LoopText \/ FinalPool \/ CreateVSM \/ VocabIdsStep \/ VocabIdsDone

Spec == Init /\ [][Next]_vars

(* ----------------------- definitions used by the claims ---------------- *)
\* The target T occurs in the haystack H at 0-based start position i.
Matches(T, H, i) ==
  /\ 0 <= i
  /\ i + Len(T) <= Len(H)
  /\ \A j \in 1..Len(T) : H[i + j] = T[j]

MatchStarts(T, H) == {i \in 0..Len(H) : Matches(T, H, i)}

SpanSet(r) == {r[n] : n \in 1..Len(r)}

\* T equals itself shifted by d: its first Len(T)-d elements are its last.
SelfOverlap(T, d) ==
  /\ 0 < d
  /\ d < Len(T)
  /\ \A j \in 1..(Len(T) - d) : T[j] = T[j + d]

Returned == cell = "example" /\ pc = "done"
Finished == cell = "example" /\ pc # "call"
ListCall == sublist.kind = "list" /\ mainlist.kind = "list"

\* C1: for a non-empty list target T and list haystack H the call returns, and
\* the pairs it returns are exactly (i, i+len(T)) for the positions i where H
\* holds T element by element; no position is missed, none is added or repeated.
C1_ExactSpans ==
  (Finished /\ ListCall /\ Len(sublist.data) > 0) =>
    /\ pc = "done"
    /\ SpanSet(result) = {<<i, i + Len(sublist.data)>> :
                            i \in MatchStarts(sublist.data, mainlist.data)}
    /\ Len(result) = Cardinality(MatchStarts(sublist.data, mainlist.data))

\* A call on lists returned some spans and rejected some start position.
C1_Witness ==
  /\ Returned /\ ListCall
  /\ Len(sublist.data) = 2
  /\ Len(result) >= 1
  /\ \E i \in 0..(Len(mainlist.data) - 2) : ~Matches(sublist.data, mainlist.data, i)

\* C2 (as claimed): any two returned spans (s1,e1), (s2,e2) with s1 < s2
\* satisfy e1 <= s2.
C2_NonOverlapping ==
  Returned =>
    \A n, m \in 1..Len(result) :
      result[n][1] < result[m][1] => result[n][2] <= result[m][1]

\* C2 (amended): two returned spans with s1 < s2 satisfy e1 <= s2 unless the
\* target equals itself shifted by s2 - s1; only a target with such repeating
\* structure yields overlapping spans.
C2_OverlapOnlyIfSelfOverlap ==
  Returned =>
    \A n, m \in 1..Len(result) :
      result[n][1] < result[m][1] =>
        \/ result[n][2] <= result[m][1]
        \/ SelfOverlap(sublist.data, result[m][1] - result[n][1])

\* T=[0,0] equals itself shifted by one, and both overlapping spans of it in
\* H=[0,0,0] are returned.
C2_Witness ==
  /\ Returned
  /\ Len(sublist.data) = 2
  /\ SelfOverlap(sublist.data, 1)
  /\ Len(result) >= 2
  /\ result[1][2] > result[2][1]

\* C3: the scan never skips ahead after a match: when the target occurs at two
\* start positions i < j that overlap (j < i + len(T)), both spans are returned.
C3_OverlapsPreserved ==
  (Finished /\ ListCall /\ Len(sublist.data) > 0) =>
    \A i, j \in MatchStarts(sublist.data, mainlist.data) :
      (i < j /\ j < i + Len(sublist.data)) =>
         /\ <<i, i + Len(sublist.data)>> \in SpanSet(result)
         /\ <<j, j + Len(sublist.data)>> \in SpanSet(result)

\* T=[1,1], H=[1,1,1]: the span starting inside the first span is returned.
C3_Witness ==
  /\ Returned /\ ListCall
  /\ sublist.data = <<1, 1>>
  /\ mainlist.data = <<1, 1, 1>>
  /\ result = << <<0, 2>>, <<1, 3>> >>

\* C4: the returned sequence has strictly increasing start indices, so it is
\* in left-to-right scan order and repeats no span.
C4_IncreasingStarts ==
  Returned =>
    \A n, m \in 1..Len(result) : n < m => result[n][1] < result[m][1]

\* T=[1,0], H=[1,0,1,0]: adjacent repeats are returned in order.
C4_Witness ==
  /\ Returned /\ ListCall
  /\ sublist.data = <<1, 0>>
  /\ mainlist.data = <<1, 0, 1, 0>>
  /\ result = << <<0, 2>>, <<2, 4>> >>

\* C5: when the target is longer than the haystack the call returns the empty
\* sequence and raises nothing, for lists and for tensors.
C5_LongTargetEmpty ==
  (Finished /\ Len(sublist.data) > Len(mainlist.data)) =>
    /\ pc = "done"
    /\ exc = "none"
    /\ result = <<>>

\* A tensor call with a two-token target and a shorter, non-empty haystack returned.
C5_Witness ==
  /\ Returned
  /\ sublist.kind = "tensor"
  /\ Len(sublist.data) = 2
  /\ Len(mainlist.data) = 1
  /\ result = <<>>

(* ------------------- occurrences of the word in the corpus ------------- *)
\* The start positions, ascending, at which the target occurs in text t.
RECURSIVE Ascending(_)
Ascending(S) ==
  IF S = {} THEN <<>>
  ELSE LET lo == CHOOSE x \in S : \A y \in S : x <= y
       IN  <<lo>> \o Ascending(S \ {lo})

OccOfText(t) ==
  LET st == Ascending(MatchStarts(sailing.data, corpus_ids[t].data))
  IN  [n \in 1..Len(st) |-> <<t, st[n]>>]

\* All occurrences <<text, start>> in the first n texts: corpus order, then
\* left to right within a text.
RECURSIVE OccUpTo(_)
OccUpTo(n) == IF n = 0 THEN <<>> ELSE OccUpTo(n - 1) \o OccOfText(n)

AllOcc == OccUpTo(Len(corpus_ids))

\* Sum of the representation components of the tokens p..q of text t.
RECURSIVE RepSum(_, _, _)
RepSum(t, p, q) == IF p > q THEN 0 ELSE corpus_reps[t][p][1] + RepSum(t, p + 1, q)

\* The pooled (mean) representation of the occurrence o = <<text, start>>.
OccVector(o) == Rat(RepSum(o[1], o[2] + 1, o[2] + Len(sailing.data)), Len(sailing.data))

Aggregating == cell = "aggregate"
Terminated == cell = "aggregate" /\ pc \in {"done", "raised"}
LoopFinished == cell = "aggregate" /\ k > Len(corpus_ids)

\* C6 (as claimed): a word with no occurrence in any text of the corpus does
\* not end the run with an unhandled failure when its empty collection of
\* occurrence vectors is pooled; it ends with a result marked unrepresentable.
C6_ZeroOccurrencesMarked ==
  (Terminated /\ LoopFinished /\ AllOcc = <<>>) =>
    /\ pc # "raised"
    /\ exc = "none"

\* C7: at every point of the loop sailing_reps holds exactly one vector per
\* occurrence found in the texts processed so far, in corpus order and left to
\* right within a text; the final vector is the mean of that flat collection,
\* every occurrence weighing the same.
C7_OneVectorPerOccurrence ==
  Aggregating =>
    LET occ == OccUpTo(k - 1)
    IN  /\ Len(sailing_reps) = Len(occ)
        /\ \A n \in 1..Len(occ) : sailing_reps[n] = OccVector(occ[n])
        /\ pc = "done" =>
             /\ k - 1 = Len(corpus_ids)
             /\ sailing_rep # NaN
             /\ RatSum([n \in 1..Len(occ) |-> OccVector(occ[n])])
                  = Rat(sailing_rep[1] * Len(occ), sailing_rep[2])

\* The mean of the per-text means of the occurrence vectors.
PerTextMeans ==
  LET ts == Ascending({t \in 1..Len(corpus_ids) : OccOfText(t) # <<>>})
  IN  [j \in 1..Len(ts) |->
         torch_mean([n \in 1..Len(OccOfText(ts[j])) |-> OccVector(OccOfText(ts[j])[n])])]

\* A finished run where one text holds two occurrences and another holds one,
\* and the final vector differs from the mean of the per-text means.
C7_Witness ==
  /\ Aggregating /\ pc = "done"
  /\ Len(corpus_ids) = 2
  /\ Len(OccOfText(1)) = 2
  /\ Len(OccOfText(2)) = 1
  /\ Len(sailing_reps) = 3
  /\ sailing_rep # torch_mean(PerTextMeans)

\* C8 (as claimed): for a word encoded as two or more token ids the locator,
\* called on the tensors of the notebook, raises nothing and every exact
\* occurrence in the texts processed so far has been collected.
C8_MultiTokenLocated ==
  (Aggregating /\ Len(sailing.data) >= 2) =>
    /\ exc # "ambiguous_bool"
    /\ exc # "size_mismatch"
    /\ Len(sailing_reps) = Len(OccUpTo(k - 1))

\* Sum of the representation components of the tokens at the start positions
\* of the occurrences occ.
RECURSIVE TokenSum(_)
TokenSum(occ) ==
  IF occ = <<>> THEN 0
  ELSE corpus_reps[occ[1][1]][occ[1][2] + 1][1] + TokenSum(Tail(occ))

\* C10: for a single-token word every occurrence vector is, unchanged, the
\* representation of the token at the occurrence's start position, and a run
\* over a corpus with at least one occurrence ends with the mean of those
\* token representations as the final vector.
C10_SingleTokenIdentity ==
  (Aggregating /\ Len(sailing.data) = 1) =>
    LET occ == OccUpTo(k - 1)
    IN  /\ Len(sailing_reps) = Len(occ)
        /\ \A n \in 1..Len(occ) :
             sailing_reps[n] = corpus_reps[occ[n][1]][occ[n][2] + 1]
        /\ (Terminated /\ AllOcc # <<>>) =>
             /\ pc = "done"
             /\ sailing_rep = Rat(TokenSum(AllOcc), Len(AllOcc))

\* A finished run of a single-token word with two occurrences whose tokens
\* have different representations.
C10_Witness ==
  /\ Aggregating /\ pc = "done"
  /\ Len(sailing.data) = 1
  /\ Len(sailing_reps) = 2
  /\ sailing_reps[1] # sailing_reps[2]
  /\ sailing_rep = <<1, 2>>

\* C14: every span returned for a non-empty target satisfies
\* 0 <= start < end <= len(haystack) and end - start = len(target); in the
\* aggregation loop every slice reps[:, start:end] of a processed text holds
\* exactly len(target) >= 1 vectors, so no occurrence vector is the mean of
\* an empty slice.
C14_SpansWithinBounds ==
  /\ (Returned /\ Len(sublist.data) > 0) =>
       \A n \in 1..Len(result) :
         /\ 0 <= result[n][1]
         /\ result[n][1] < result[n][2]
         /\ result[n][2] <= Len(mainlist.data)
         /\ result[n][2] - result[n][1] = Len(sublist.data)
  /\ Aggregating =>
       /\ \A t \in 1..(k - 1) :
            LET offsets == find_sublist_indices(sailing, corpus_ids[t]).value
            IN  \A n \in 1..Len(offsets) :
                  /\ 0 <= offsets[n][1]
                  /\ offsets[n][1] < offsets[n][2]
                  /\ offsets[n][2] <= Len(corpus_ids[t].data)
                  /\ Len(Slice(corpus_reps[t], offsets[n][1], offsets[n][2]))
                       = Len(sailing.data)
                  /\ Len(sailing.data) >= 1
       /\ \A n \in 1..Len(sailing_reps) : sailing_reps[n] # NaN

\* The loop has pooled an occurrence that ends at the last token of a text.
C14_Witness ==
  /\ Aggregating
  /\ k = 2
  /\ Len(sailing_reps) >= 1
  /\ Matches(sailing.data, corpus_ids[1].data,
             Len(corpus_ids[1].data) - Len(sailing.data))
  /\ Len(corpus_ids[1].data) >= 2

\* C15: called with an empty list target and a list haystack H the function
\* raises nothing and returns the len(H)+1 zero-length spans (i, i),
\* i = 0..len(H), in order.
C15_EmptyTargetSpans ==
  (Finished /\ ListCall /\ sublist.data = <<>>) =>
    /\ pc = "done"
    /\ exc = "none"
    /\ result = [n \in 1..(Len(mainlist.data) + 1) |-> <<n - 1, n - 1>>]

\* find_sublist_indices([], H) returned three spans for a haystack of two ids.
C15_Witness ==
  /\ Returned /\ ListCall
  /\ sublist.data = <<>>
  /\ Len(mainlist.data) = 2
  /\ result = << <<0, 0>>, <<1, 1>>, <<2, 2>> >>

\* The loop has invoked find_sublist_indices at least once.
Invoked == cell = "aggregate" /\ (k > 1 \/ pc = "raised")

C13_InputsUnchanged ==
  [][UNCHANGED <<sublist, mainlist, sailing, corpus_ids, corpus_reps>>]_vars

\* The loop has finished over two texts and produced occurrence vectors and
\* the final vector.
C13_Witness ==
  /\ cell = "aggregate"
  /\ pc = "done"
  /\ Len(corpus_ids) = 2
  /\ Len(sailing_reps) >= 2

\* The keys (row labels) of a word-keyed table, in its order.
Keys(d) == [n \in 1..Len(d) |-> d[n][1]]

\* C11: pooled_df and vocab_ids hold exactly one entry per vocabulary word, in
\* vocabulary order: while vocab_ids is being built its keys are the words
\* taken so far, every step adds one new entry and rewrites none, and the
\* finished tables have the vocabulary as their key sequence.
C11_OneEntryPerWord ==
  /\ [](cell = "vocab" =>
          /\ pc \in {"vocab_ids", "done"} => Keys(pooled_df) = vocab
          /\ pc = "vocab_ids" => Keys(vocab_ids) = SubSeq(vocab, 1, k - 1)
          /\ pc = "done" => Keys(vocab_ids) = vocab
          /\ \A n \in 1..Len(vocab_ids) :
               vocab_ids[n][2] = hf_encode(bert_tokenizer[vocab_ids[n][1]]))
  /\ [][vocab_ids' # vocab_ids =>
          /\ Len(vocab_ids') = Len(vocab_ids) + 1
          /\ SubSeq(vocab_ids', 1, Len(vocab_ids)) = vocab_ids]_vars

\* Both tables are finished for a two-word vocabulary that is not in
\* ascending word order.
C11_Witness ==
  /\ cell = "vocab"
  /\ pc = "done"
  /\ vocab = <<2, 1>>
  /\ Keys(vocab_ids) = <<2, 1>>
  /\ Keys(pooled_df) = <<2, 1>>

====
